---- MODULE Spec2Model ----
(***************************************************************************)
(* Model of scripts/build_splash.py: the splash composer.  One run of      *)
(* main() is a straight line of steps (open, resize, new canvas, paste,    *)
(* font loop, measure, draw, save, print); the file system it reads and    *)
(* writes (source icon, output file, installed fonts) is the environment.  *)
(* Successive invocations of the script are modelled by Invoke, which      *)
(* starts the next process once the previous one has terminated.           *)
(***************************************************************************)
EXTENDS Integers, Sequences, FiniteSets, TLC

\* ---------------------------------------------------------------- bounds
MaxRuns == 2

\* ------------------------------------------------------ program constants
W == 1200
H == 1600
ICON_SIZE == 520
ICON_TOP == 200
GAP == 44
TEXT_SIZE == 72

ICON_PATH == "IconKitchen-Output/ios/AppIcon~ios-marketing.png"
OUT_PATH == "Assets.xcassets/LaunchLogo.imageset/LaunchLogo.png"

\* The ordered candidate list of the for loop.
Candidates ==
    << [path |-> "/System/Library/Fonts/HelveticaNeue.ttc", index |-> 1],
       [path |-> "/System/Library/Fonts/HelveticaNeue.ttc", index |-> 0],
       [path |-> "/System/Library/Fonts/Supplemental/Avenir Next.ttc", index |-> 0],
       [path |-> "/System/Library/Fonts/Helvetica.ttc", index |-> 0] >>

CandIdx == 1..Len(Candidates)

\* font = None
NoFont == [path |-> "None", index |-> 0, size |-> 0]

\* ImageFont.load_default()
DefaultFont == [path |-> "default", index |-> 0, size |-> 0]

\* ImageFont.truetype(font_path, TEXT_SIZE, index=index) for candidate c
Truetype(c) == [path |-> Candidates[c].path, index |-> Candidates[c].index,
                size |-> TEXT_SIZE]

AllFonts == {Truetype(c) : c \in CandIdx} \cup {DefaultFont}

\* ------------------------------------------------------------ environment
\* Contents a file at ICON_PATH can have; NoFile is an absent file.
NoFile == [format |-> "absent"]

IconFiles ==
    { [format |-> "PNG", mode |-> "RGBA", size |-> <<1024, 1024>>, px |-> <<"iconA">>],
      [format |-> "PNG", mode |-> "P",    size |-> <<300, 180>>,   px |-> <<"iconB">>] }

\* Bounding boxes (x0, y0, x1, y1) that textbbox((0, 0), "Checkpoint") can
\* report: zero, positive and negative left/top offsets, odd and even
\* widths, and a width equal to the whole canvas.
BBoxes ==
    << <<4, 17, 388, 86>>,
       <<0, 15, 367, 84>>,
       <<3, 0, 370, 70>>,
       <<0, -2, 1200, 66>>,
       <<0, 3, 61, 14>>,
       <<-1, 16, 380, 85>> >>

Rank(f) == IF f = DefaultFont THEN 0
           ELSE CHOOSE c \in CandIdx : Truetype(c) = f

\* A font environment's metrics: which box each font measures for the text.
MetricTable(k) == [f \in AllFonts |-> BBoxes[((Rank(f) + k) % Len(BBoxes)) + 1]]

MetricTables == {MetricTable(k) : k \in {0, 2}}

\* What a process is started with (never consulted by main()).
Invocations ==
    { [argv |-> << >>, environ |-> "default"],
      [argv |-> <<"--size", "9">>, environ |-> "OUT=/tmp/x.png"] }

\* -------------------------------------------------------- image operations
NoImage == [mode |-> "None", size |-> <<0, 0>>, px |-> << >>]

NoCanvas == [mode |-> "None", size |-> <<0, 0>>, layers |-> << >>]

\* Image.open(path).convert("RGBA")
OpenConvert(file) == [mode |-> "RGBA", size |-> file.size, px |-> file.px]

\* Variant: a resize that keeps the aspect ratio (as Image.thumbnail does).
ResizeKeepAspect(img, w, h) ==
    [mode |-> img.mode,
     size |-> IF img.size[1] >= img.size[2]
              THEN <<w, (img.size[2] * w) \div img.size[1]>>
              ELSE <<(img.size[1] * h) \div img.size[2], h>>,
     px |-> <<img.px, img.size, "LANCZOS", w, h>>]

\* img.resize((w, h), LANCZOS)
ResizeTo(img, w, h) == [mode |-> img.mode, size |-> <<w, h>>,
                        px |-> <<img.px, img.size, "LANCZOS", w, h>>]

\* Variant: the size given as (rows, columns).
NewImageSwapped(w, h) == [mode |-> "RGB", size |-> <<h, w>>, layers |-> << >>]

\* Image.new("RGB", (w, h), (0, 0, 0))
NewImage(w, h) == [mode |-> "RGB", size |-> <<w, h>>, layers |-> << >>]

\* canvas.paste(img, (x, y), img): the box covered is the image's size at (x, y)
PasteOn(canvas, img, x, y) ==
    [canvas EXCEPT !.layers = Append(@,
        [kind |-> "icon", px |-> img.px,
         box |-> <<x, y, x + img.size[1], y + img.size[2]>>])]

\* draw.text((x, y), text, font): the ink lies at the measured box moved by (x, y)
TextOn(canvas, x, y, text, f, bb) ==
    [canvas EXCEPT !.layers = Append(@,
        [kind |-> "text", text |-> text, font |-> f, origin |-> <<x, y>>,
         box |-> <<x + bb[1], y + bb[2], x + bb[3], y + bb[4]>>])]

\* out.save(path, "PNG"): the bytes written
PngEncode(canvas) == [format |-> "PNG", mode |-> canvas.mode,
                      size |-> canvas.size, layers |-> canvas.layers]

\* An output file left by an earlier build of another layout.
StaleOut == [format |-> "PNG", mode |-> "RGB", size |-> <<1024, 1024>>,
             layers |-> << >>]

SavedLine == <<"Saved", OUT_PATH>>

\* ------------------------------------------------------------------ state
VARIABLES
    iconFile,     \* contents of the file at ICON_PATH
    outFile,      \* contents of the file at OUT_PATH
    outWritable,  \* whether OUT_PATH can be opened for writing
    loadable,     \* candidates whose ImageFont.truetype call succeeds
    metrics,      \* font -> bounding box of "Checkpoint"
    invocation,   \* argv / environment of the running process
    pc,           \* position of the running process in main()
    icon,         \* local icon
    out,          \* local out (the canvas)
    x_center,     \* local x_center
    cand,         \* position of the for loop in Candidates
    font,         \* local font
    attempted,    \* candidates passed to ImageFont.truetype so far
    bbox,         \* local bbox
    tw,           \* local tw
    th,           \* local th
    text_y,       \* local text_y
    stdout,       \* lines printed by the process
    err,          \* exception that ended the process ("none" if none)
    writes,       \* paths the process has written
    run,          \* ordinal of the running process
    history       \* records of the terminated processes

vars == <<iconFile, outFile, outWritable, loadable, metrics, invocation, pc,
          icon, out, x_center, cand, font, attempted, bbox, tw, th, text_y,
          stdout, err, writes, run, history>>

NoBBox == <<0, 0, 0, 0>>

Init ==
    /\ iconFile \in IconFiles \cup {NoFile}
    /\ outFile \in {NoFile, StaleOut}
    /\ outWritable \in BOOLEAN
    /\ loadable \in SUBSET CandIdx
    /\ metrics \in MetricTables
    /\ invocation \in Invocations
    /\ pc = "open"
    /\ icon = NoImage
    /\ out = NoCanvas
    /\ x_center = 0
    /\ cand = 1
    /\ font = NoFont
    /\ attempted = << >>
    /\ bbox = NoBBox
    /\ tw = 0
    /\ th = 0
    /\ text_y = 0
    /\ stdout = << >>
    /\ err = "none"
    /\ writes = << >>
    /\ run = 1
    /\ history = << >>

\* ---------------------------------------------------------------- actions
\* Variant: a missing icon is replaced by an empty one and the run goes on.
OpenIconFallback ==
    /\ pc = "open"
    /\ pc' = "resize"
    /\ err' = err
    /\ icon' = IF iconFile = NoFile
               THEN [mode |-> "RGBA", size |-> <<1, 1>>, px |-> <<"blank">>]
               ELSE OpenConvert(iconFile)
    /\ UNCHANGED <<iconFile, outFile, outWritable, loadable, metrics, invocation,
                   out, x_center, cand, font, attempted, bbox, tw, th, text_y,
                   stdout, writes, run, history>>

\* line 23: icon = Image.open(ICON_PATH).convert("RGBA")
OpenIcon ==
    /\ pc = "open"
    /\ IF iconFile = NoFile
       THEN /\ pc' = "failed"
            /\ err' = "FileNotFoundError"
            /\ icon' = icon
       ELSE /\ pc' = "resize"
            /\ err' = err
            /\ icon' = OpenConvert(iconFile)
    /\ UNCHANGED <<iconFile, outFile, outWritable, loadable, metrics, invocation,
                   out, x_center, cand, font, attempted, bbox, tw, th, text_y,
                   stdout, writes, run, history>>

\* line 24: icon = icon.resize((ICON_SIZE, ICON_SIZE), LANCZOS)
Resize ==
    /\ pc = "resize"
    /\ icon' = ResizeTo(icon, ICON_SIZE, ICON_SIZE)
    /\ pc' = "new"
    /\ UNCHANGED <<iconFile, outFile, outWritable, loadable, metrics, invocation,
                   out, x_center, cand, font, attempted, bbox, tw, th, text_y,
                   stdout, err, writes, run, history>>

\* Variant: an existing output file is reused as the background.
NewCanvasOverExisting ==
    /\ pc = "new"
    /\ out' = IF outFile = NoFile
              THEN NewImage(W, H)
              ELSE [NewImage(W, H) EXCEPT !.mode = "RGB+previous"]
    /\ x_center' = (W - ICON_SIZE) \div 2
    /\ pc' = "paste"
    /\ UNCHANGED <<iconFile, outFile, outWritable, loadable, metrics, invocation,
                   icon, cand, font, attempted, bbox, tw, th, text_y,
                   stdout, err, writes, run, history>>

\* lines 26-27: out = Image.new(...); x_center = (W - ICON_SIZE) // 2
NewCanvas ==
    /\ pc = "new"
    /\ out' = NewImage(W, H)
    /\ x_center' = (W - ICON_SIZE) \div 2
    /\ pc' = "paste"
    /\ UNCHANGED <<iconFile, outFile, outWritable, loadable, metrics, invocation,
                   icon, cand, font, attempted, bbox, tw, th, text_y,
                   stdout, err, writes, run, history>>

\* lines 28-32: out.paste(icon, (x_center, ICON_TOP), icon); draw; font = None
Paste ==
    /\ pc = "paste"
    /\ out' = PasteOn(out, icon, x_center, ICON_TOP)
    /\ font' = NoFont
    /\ cand' = 1
    /\ pc' = "fonts"
    /\ UNCHANGED <<iconFile, outFile, outWritable, loadable, metrics, invocation,
                   icon, x_center, attempted, bbox, tw, th, text_y,
                   stdout, err, writes, run, history>>

\* Variant: the loop has no break, a later loadable candidate replaces the font.
TryFontOkNoBreak ==
    /\ pc = "fonts"
    /\ cand \in CandIdx
    /\ cand \in loadable
    /\ attempted' = Append(attempted, cand)
    /\ font' = Truetype(cand)
    /\ cand' = cand + 1
    /\ UNCHANGED <<iconFile, outFile, outWritable, loadable, metrics, invocation,
                   pc, icon, out, x_center, bbox, tw, th, text_y,
                   stdout, err, writes, run, history>>

\* lines 39-41: the truetype call succeeds: font is set and the loop breaks
TryFontOk ==
    /\ pc = "fonts"
    /\ cand \in CandIdx
    /\ cand \in loadable
    /\ attempted' = Append(attempted, cand)
    /\ font' = Truetype(cand)
    /\ pc' = "fontdone"
    /\ UNCHANGED <<iconFile, outFile, outWritable, loadable, metrics, invocation,
                   icon, out, x_center, cand, bbox, tw, th, text_y,
                   stdout, err, writes, run, history>>

\* Variant: the exception of the truetype call is not caught.
TryFontFailUncaught ==
    /\ pc = "fonts"
    /\ cand \in CandIdx
    /\ cand \notin loadable
    /\ attempted' = Append(attempted, cand)
    /\ pc' = "failed"
    /\ err' = "OSError: cannot open resource"
    /\ UNCHANGED <<iconFile, outFile, outWritable, loadable, metrics, invocation,
                   icon, out, x_center, cand, font, bbox, tw, th, text_y,
                   stdout, writes, run, history>>

\* lines 39-43: the truetype call raises: the exception is caught, next candidate
TryFontFail ==
    /\ pc = "fonts"
    /\ cand \in CandIdx
    /\ cand \notin loadable
    /\ attempted' = Append(attempted, cand)
    /\ cand' = cand + 1
    /\ UNCHANGED <<iconFile, outFile, outWritable, loadable, metrics, invocation,
                   pc, icon, out, x_center, font, bbox, tw, th, text_y,
                   stdout, err, writes, run, history>>

\* line 33: the candidate list is exhausted, the loop ends
FontsExhausted ==
    /\ pc = "fonts"
    /\ cand \notin CandIdx
    /\ pc' = "fontdone"
    /\ UNCHANGED <<iconFile, outFile, outWritable, loadable, metrics, invocation,
                   icon, out, x_center, cand, font, attempted, bbox, tw, th,
                   text_y, stdout, err, writes, run, history>>

\* lines 44-45: if font is None: font = ImageFont.load_default()
LoadDefault ==
    /\ pc = "fontdone"
    /\ font' = IF font = NoFont THEN DefaultFont ELSE font
    /\ pc' = "measure"
    /\ UNCHANGED <<iconFile, outFile, outWritable, loadable, metrics, invocation,
                   icon, out, x_center, cand, attempted, bbox, tw, th, text_y,
                   stdout, err, writes, run, history>>

\* lines 47-51: bbox = draw.textbbox((0, 0), text, font); tw; th; text_y
Measure ==
    /\ pc = "measure"
    /\ bbox' = metrics[font]
    /\ tw' = metrics[font][3] - metrics[font][1]
    /\ th' = metrics[font][4] - metrics[font][2]
    /\ text_y' = ICON_TOP + ICON_SIZE + GAP
    /\ pc' = "draw"
    /\ UNCHANGED <<iconFile, outFile, outWritable, loadable, metrics, invocation,
                   icon, out, x_center, cand, font, attempted,
                   stdout, err, writes, run, history>>

\* Variant: the top offset of the measured box is not compensated.
DrawTextNoOffset ==
    /\ pc = "draw"
    /\ out' = TextOn(out, (W - tw) \div 2, text_y, "Checkpoint", font, bbox)
    /\ pc' = "save"
    /\ UNCHANGED <<iconFile, outFile, outWritable, loadable, metrics, invocation,
                   icon, x_center, cand, font, attempted, bbox, tw, th, text_y,
                   stdout, err, writes, run, history>>

\* line 52: draw.text(((W - tw) // 2, text_y - bbox[1]), text, fill, font)
DrawText ==
    /\ pc = "draw"
    /\ out' = TextOn(out, (W - tw) \div 2, text_y - bbox[2], "Checkpoint", font, bbox)
    /\ pc' = "save"
    /\ UNCHANGED <<iconFile, outFile, outWritable, loadable, metrics, invocation,
                   icon, x_center, cand, font, attempted, bbox, tw, th, text_y,
                   stdout, err, writes, run, history>>

\* Variant: a failing save is swallowed and the run goes on to print.
SaveSwallow ==
    /\ pc = "save"
    /\ IF outWritable
       THEN /\ outFile' = PngEncode(out)
            /\ writes' = Append(writes, OUT_PATH)
       ELSE /\ outFile' = outFile
            /\ writes' = writes
    /\ pc' = "print"
    /\ err' = err
    /\ UNCHANGED <<iconFile, outWritable, loadable, metrics, invocation,
                   icon, out, x_center, cand, font, attempted, bbox, tw, th,
                   text_y, stdout, run, history>>

\* Variant: an existing output file is kept instead of being overwritten.
SaveKeepExisting ==
    /\ pc = "save"
    /\ IF outWritable
       THEN /\ outFile' = IF outFile = NoFile THEN PngEncode(out) ELSE outFile
            /\ writes' = Append(writes, OUT_PATH)
            /\ pc' = "print"
            /\ err' = err
       ELSE /\ outFile' = outFile
            /\ writes' = writes
            /\ pc' = "failed"
            /\ err' = "OSError"
    /\ UNCHANGED <<iconFile, outWritable, loadable, metrics, invocation,
                   icon, out, x_center, cand, font, attempted, bbox, tw, th,
                   text_y, stdout, run, history>>

\* line 54: out.save(OUT_PATH, "PNG")
Save ==
    /\ pc = "save"
    /\ IF outWritable
       THEN /\ outFile' = PngEncode(out)
            /\ writes' = Append(writes, OUT_PATH)
            /\ pc' = "print"
            /\ err' = err
       ELSE /\ outFile' = outFile
            /\ writes' = writes
            /\ pc' = "failed"
            /\ err' = "OSError"
    /\ UNCHANGED <<iconFile, outWritable, loadable, metrics, invocation,
                   icon, out, x_center, cand, font, attempted, bbox, tw, th,
                   text_y, stdout, run, history>>

\* line 55: print("Saved", OUT_PATH)
PrintSaved ==
    /\ pc = "print"
    /\ stdout' = Append(stdout, SavedLine)
    /\ pc' = "done"
    /\ UNCHANGED <<iconFile, outFile, outWritable, loadable, metrics, invocation,
                   icon, out, x_center, cand, font, attempted, bbox, tw, th,
                   text_y, err, writes, run, history>>

\* What is kept of a terminated process.
RunRecord ==
    [iconFile |-> iconFile, loadable |-> loadable, invocation |-> invocation,
     outcome |-> pc, err |-> err, font |-> font, x_center |-> x_center,
     canvas |-> out, saved |-> (writes # << >>),
     output |-> IF writes # << >> THEN outFile ELSE NoFile]

\* Changes of the file system between two invocations: nothing, another
\* (or no) icon file, or one font installed or removed.
EnvChanges ==
    {[iconFile |-> iconFile, loadable |-> loadable]}
    \cup {[iconFile |-> f, loadable |-> loadable] : f \in IconFiles \cup {NoFile}}
    \cup {[iconFile |-> iconFile,
           loadable |-> (loadable \ {c}) \cup ({c} \ loadable)] : c \in CandIdx}

\* lines 57-58: the script is started again after the previous process ended
Invoke ==
    /\ pc \in {"done", "failed"}
    /\ run < MaxRuns
    /\ run' = run + 1
    /\ history' = Append(history, RunRecord)
    /\ \E e \in EnvChanges :
          /\ iconFile' = e.iconFile
          /\ loadable' = e.loadable
    /\ invocation' \in Invocations
    /\ pc' = "open"
    /\ icon' = NoImage
    /\ out' = NoCanvas
    /\ x_center' = 0
    /\ cand' = 1
    /\ font' = NoFont
    /\ attempted' = << >>
    /\ bbox' = NoBBox
    /\ tw' = 0
    /\ th' = 0
    /\ text_y' = 0
    /\ stdout' = << >>
    /\ err' = "none"
    /\ writes' = << >>
    /\ UNCHANGED <<outFile, outWritable, metrics>>

\* One step of the running process.
MainStep ==
    \/ OpenIcon
    \/ Resize
    \/ NewCanvas
    \/ Paste
    \/ TryFontOk
    \/ TryFontFail
    \/ FontsExhausted
    \/ LoadDefault
    \/ Measure
    \/ DrawText
    \/ Save
    \/ PrintSaved

Next ==
    \/ MainStep
    \/ Invoke

Spec == Init /\ [][Next]_vars

\* A started process runs to its end: main() has no suspension point.
FairSpec == Init /\ [][Next]_vars /\ WF_vars(MainStep)

\* ------------------------------------------------------- positions in main()
\* The icon has been pasted on the canvas.
Pasted == pc \in {"fonts", "fontdone", "measure", "draw", "save", "print", "done"}
          \/ (pc = "failed" /\ err = "OSError")

\* The font loop and the default fallback are over.
FontResolved == pc \in {"measure", "draw", "save", "print", "done"}
                \/ (pc = "failed" /\ err = "OSError")

\* The text has been drawn on the canvas.
Composed == pc \in {"save", "print", "done"}
            \/ (pc = "failed" /\ err = "OSError")

IconLayer == out.layers[1]
TextLayer == out.layers[2]

FirstLoadable == CHOOSE c \in loadable : \A d \in loadable : c <= d

\* ------------------------------------------------------------------ claims
\* C1: the font used to draw the text is the first candidate of the ordered
\* list that loads; no candidate after the first success is attempted; the
\* default font is used if and only if all four candidates fail.
C1_FirstLoadableFont ==
    /\ \A k \in 1..Len(attempted) :
          /\ attempted[k] = k
          /\ \A j \in 1..(k - 1) : attempted[j] \notin loadable
    /\ FontResolved =>
          /\ loadable # {} =>
                /\ font = Truetype(FirstLoadable)
                /\ Len(attempted) = FirstLoadable
          /\ loadable = {} => Len(attempted) = Len(Candidates)
          /\ (font = DefaultFont) <=> (loadable = {})
    /\ Composed => TextLayer.font = font

C1_Witness ==
    /\ pc = "done"
    /\ loadable = {2, 4}
    /\ font = Truetype(2)
    /\ attempted = <<1, 2>>
    /\ TextLayer.font = Truetype(2)

\* C2: with the source icon absent the run ends in a failure at the open;
\* no step of it writes the output file or prints.
C2_NoIconNoWrite ==
    [][(iconFile = NoFile /\ run' = run) =>
          /\ pc' = "failed"
          /\ err' = "FileNotFoundError"
          /\ outFile' = outFile
          /\ writes' = << >>
          /\ stdout' = << >>]_vars

C2_Witness ==
    /\ run = 2
    /\ pc = "failed"
    /\ iconFile = NoFile
    /\ history[1].saved
    /\ outFile = history[1].output
    /\ outFile # NoFile
    /\ stdout = << >>

\* C3: when all four candidates fail to load, a run with a readable icon
\* and a writable output path never fails, and ends with the text drawn in
\* the default font, the file saved and the line printed.
C3_AllFontsFailStillSucceeds ==
    /\ []((loadable = {} /\ iconFile # NoFile /\ outWritable) =>
             (pc # "failed" /\ err = "none"))
    /\ \A r \in 1..MaxRuns :
          (run = r /\ pc = "open" /\ loadable = {} /\ iconFile # NoFile /\ outWritable)
          ~> (/\ run = r
              /\ pc = "done"
              /\ font = DefaultFont
              /\ TextLayer.font = DefaultFont
              /\ outFile = PngEncode(out)
              /\ stdout = <<SavedLine>>)

C3_Witness ==
    /\ pc = "done"
    /\ loadable = {}
    /\ attempted = <<1, 2, 3, 4>>
    /\ font = DefaultFont
    /\ outFile = PngEncode(out)
    /\ stdout = <<SavedLine>>

\* C4: the left edge of the rendered ink is at floor((1200 - tw) / 2), so the
\* left and right margins of the ink differ by at most one pixel.
C4_InkCentered ==
    (Composed /\ tw <= W) =>
        /\ TextLayer.box[1] = (1200 - tw) \div 2
        /\ TextLayer.box[1] - (W - TextLayer.box[3]) \in {-1, 0, 1}

\* C5: the pasted icon region is 520x520 with its top-left corner at
\* (340, 200), equal left and right margins of 340, inside the canvas.
C5_IconRegion ==
    Pasted =>
        /\ IconLayer.kind = "icon"
        /\ IconLayer.box = <<340, 200, 860, 720>>
        /\ IconLayer.box[3] - IconLayer.box[1] = 520
        /\ IconLayer.box[4] - IconLayer.box[2] = 520
        /\ IconLayer.box[1] = (1200 - 520) \div 2
        /\ W - IconLayer.box[3] = IconLayer.box[1]
        /\ IconLayer.box[1] >= 0 /\ IconLayer.box[2] >= 0
        /\ IconLayer.box[3] <= out.size[1] /\ IconLayer.box[4] <= out.size[2]

C5_Witness ==
    /\ pc = "done"
    /\ iconFile.size = <<300, 180>>
    /\ iconFile.mode = "P"
    /\ IconLayer.box = <<340, 200, 860, 720>>

\* C6: the canvas is 1200x1600 from its creation to the save, and so is
\* the saved output image.
C6_CanvasSize ==
    /\ out # NoCanvas => out.size = <<1200, 1600>>
    /\ writes # << >> => outFile.size = <<1200, 1600>>

C6_Witness ==
    /\ pc = "done"
    /\ Len(out.layers) = 2
    /\ out.size = <<1200, 1600>>
    /\ outFile.size = <<1200, 1600>>
    /\ iconFile.size = <<300, 180>>

\* The terminated runs, the running process included once it has ended.
Finished ==
    IF pc \in {"done", "failed"} THEN Append(history, RunRecord) ELSE history

\* C7: two runs with the same icon contents and the same loadable candidates
\* end the same way, with the same font, the same positions and the same
\* output file contents.
C7_Deterministic ==
    \A a \in 1..Len(Finished) : \A b \in 1..Len(Finished) :
        (/\ Finished[a].iconFile = Finished[b].iconFile
         /\ Finished[a].loadable = Finished[b].loadable) =>
            /\ Finished[a].outcome = Finished[b].outcome
            /\ Finished[a].font = Finished[b].font
            /\ Finished[a].x_center = Finished[b].x_center
            /\ Finished[a].canvas = Finished[b].canvas
            /\ Finished[a].output = Finished[b].output

C7_Witness ==
    /\ run = 2
    /\ pc = "done"
    /\ history[1].outcome = "done"
    /\ history[1].iconFile = iconFile
    /\ history[1].loadable = loadable
    /\ history[1].invocation # invocation
    /\ history[1].output = outFile

\* C8: the line is printed once, only after the save has succeeded; a failed
\* run prints nothing; a run with a readable icon and a writable output path
\* reaches the state where the file is saved and the line is printed.
C8_SavedThenPrinted ==
    /\ [](/\ Len(stdout) <= 1
          /\ stdout # << >> =>
                (stdout = <<SavedLine>> /\ writes = <<OUT_PATH>>
                 /\ outFile = PngEncode(out) /\ pc = "done")
          /\ pc = "failed" => (stdout = << >> /\ err # "none")
          /\ pc = "done" => stdout = <<SavedLine>>)
    /\ \A r \in 1..MaxRuns :
          (run = r /\ pc = "open" /\ iconFile # NoFile /\ outWritable)
          ~> (/\ run = r
              /\ pc = "done"
              /\ writes = <<OUT_PATH>>
              /\ outFile = PngEncode(out)
              /\ stdout = <<SavedLine>>)

C8_Witness ==
    /\ run = 2
    /\ pc = "done"
    /\ stdout = <<SavedLine>>
    /\ writes = <<OUT_PATH>>
    /\ outFile = PngEncode(out)
    /\ history[1].outcome = "failed"

\* C9: the draw origin's y is 764 - y0, so the top of the ink is at
\* ICON_TOP + ICON_SIZE + GAP = 764, 44 pixels below the icon's bottom edge
\* (720), and the text does not overlap the icon region.
C9_TextBelowIcon ==
    Composed =>
        /\ TextLayer.origin[2] = 764 - bbox[2]
        /\ TextLayer.box[2] = 764
        /\ TextLayer.box[2] = ICON_TOP + ICON_SIZE + GAP
        /\ IconLayer.box[4] = 720
        /\ TextLayer.box[2] - IconLayer.box[4] = 44
        /\ TextLayer.box[2] >= IconLayer.box[4]

C9_Witness ==
    /\ pc = "done"
    /\ bbox[2] < 0
    /\ TextLayer.origin[2] = 764 - bbox[2]
    /\ TextLayer.box[2] = 764

SavedRuns == {k \in 1..Len(history) : history[k].saved}

LastSaved == CHOOSE k \in SavedRuns : \A j \in SavedRuns : j <= k

\* C10: no step of a run changes the source icon; a run writes only the
\* output path, at most once, as its last composition step, replacing what
\* was there; the file holds the output of the run that saved last.
C10_Frame ==
    /\ [][run' = run => iconFile' = iconFile]_vars
    /\ [][outFile' # outFile => (pc = "save" /\ pc' = "print")]_vars
    /\ [](/\ writes \in {<< >>, <<OUT_PATH>>}
          /\ writes # << >> => (pc \in {"print", "done"} /\ outFile = PngEncode(out))
          /\ (writes = << >> /\ SavedRuns # {}) =>
                outFile = PngEncode(history[LastSaved].canvas))

C10_Witness ==
    /\ run = 2
    /\ pc = "done"
    /\ history[1].saved
    /\ history[1].output # outFile
    /\ outFile = PngEncode(out)

====
